---- MODULE Spec2Model ----
(***************************************************************************)
(* Model of the accelerator performance engine (classes Matrix, TPUv5e and *)
(* H100 of src/unnamed/part_000, the module the page imports as           *)
(* $lib/classes).                                                          *)
(*                                                                         *)
(* JavaScript numbers are modelled as exact non-negative rationals with    *)
(* the two IEEE specials the code can produce: n/0 with n > 0 is +Infinity *)
(* and 0/0 is NaN.  Numerators and denominators are arbitrary-precision    *)
(* naturals (little-endian limb sequences), because the hardware constants *)
(* (1.97e14 ...) and their products do not fit 32-bit integers.  Rounding  *)
(* of doubles is modelled only where the code's control flow depends on   *)
(* it: the loop variable of the roofline sweep.                            *)
(* A nullable value is a sequence of length at most one.                   *)
(***************************************************************************)
EXTENDS Integers, Sequences, FiniteSets, TLC

VARIABLES hw, matrices, ret

vars == <<hw, matrices, ret>>

(***************************************************************************)
(* Bounds of the model.                                                    *)
(***************************************************************************)
MaxMatrices == 2
MaxDevices == 4

(***************************************************************************)
(* Arbitrary-precision naturals.                                           *)
(***************************************************************************)
BASE == 10^4

RECURSIVE BN(_)
BN(i) == IF i = 0 THEN <<>> ELSE <<i % BASE>> \o BN(i \div BASE)

RECURSIVE BAddC(_, _, _)
BAddC(a, b, c) ==
  IF a = <<>> /\ b = <<>> THEN BN(c)
  ELSE LET x == IF a = <<>> THEN 0 ELSE Head(a)
           y == IF b = <<>> THEN 0 ELSE Head(b)
           s == x + y + c
       IN <<s % BASE>> \o BAddC(IF a = <<>> THEN <<>> ELSE Tail(a),
                                IF b = <<>> THEN <<>> ELSE Tail(b),
                                s \div BASE)

BAdd(a, b) == BAddC(a, b, 0)

RECURSIVE BScaleC(_, _, _)
BScaleC(a, k, c) ==
  IF a = <<>> THEN BN(c)
  ELSE LET p == Head(a) * k + c
       IN <<p % BASE>> \o BScaleC(Tail(a), k, p \div BASE)

BShift(a) == IF a = <<>> THEN <<>> ELSE <<0>> \o a

RECURSIVE BMul(_, _)
BMul(a, b) ==
  IF a = <<>> \/ b = <<>> THEN <<>>
  ELSE IF a = <<1>> THEN b
  ELSE IF b = <<1>> THEN a
  ELSE IF Len(a) = 1 THEN BScaleC(b, a[1], 0)
  ELSE IF Len(b) = 1 THEN BScaleC(a, b[1], 0)
  ELSE BAdd(IF Head(a) = 0 THEN <<>> ELSE BScaleC(b, Head(a), 0),
            BShift(BMul(Tail(a), b)))

RECURSIVE BLessAt(_, _, _)
BLessAt(a, b, i) ==
  IF i = 0 THEN FALSE
  ELSE IF a[i] # b[i] THEN a[i] < b[i]
  ELSE BLessAt(a, b, i - 1)

BLess(a, b) == IF Len(a) # Len(b) THEN Len(a) < Len(b) ELSE BLessAt(a, b, Len(a))

RECURSIVE BPow10(_)
BPow10(e) == IF e = 0 THEN BN(1) ELSE BScaleC(BPow10(e - 1), 10, 0)

(***************************************************************************)
(* JavaScript numbers: [n, d] is n/d; d = 0 is +Infinity (n > 0) or NaN.   *)
(***************************************************************************)
Frac(n, d) == [n |-> n, d |-> d]
Num(i) == Frac(BN(i), BN(1))
Sci(m, e) == Frac(BMul(BN(m), BPow10(e)), BN(1))
Half == Frac(BN(1), BN(2))
NaN == Frac(<<>>, <<>>)

IsNaN(x) == x.n = <<>> /\ x.d = <<>>
IsInfinity(x) == x.n # <<>> /\ x.d = <<>>
IsFinite(x) == x.d # <<>>
IsZero(x) == x.n = <<>> /\ x.d # <<>>

NMul(x, y) == Frac(BMul(x.n, y.n), BMul(x.d, y.d))
NDiv(x, y) == Frac(BMul(x.n, y.d), BMul(x.d, y.n))
NAdd(x, y) ==
  IF IsInfinity(x) /\ IsInfinity(y) THEN x
  ELSE Frac(BAdd(BMul(x.n, y.d), BMul(y.n, x.d)), BMul(x.d, y.d))

\* x > y, x <= y, x === y of JavaScript: every comparison with NaN is false
NGt(x, y) == ~IsNaN(x) /\ ~IsNaN(y) /\ BLess(BMul(y.n, x.d), BMul(x.n, y.d))
NLt(x, y) == NGt(y, x)
NEq(x, y) == ~IsNaN(x) /\ ~IsNaN(y) /\ BMul(x.n, y.d) = BMul(y.n, x.d)
NLe(x, y) == NLt(x, y) \/ NEq(x, y)

\* Math.max(x, y): NaN if either argument is NaN
NMax(x, y) == IF IsNaN(x) \/ IsNaN(y) THEN NaN ELSE IF NGt(y, x) THEN y ELSE x

\* Math.ceil(a / b) for integers a >= 0, b >= 1
CeilDiv(a, b) == (a + b - 1) \div b

Null == <<>>
Some(x) == <<x>>

NMin(x, y) == IF IsNaN(x) \/ IsNaN(y) THEN NaN ELSE IF NLt(y, x) THEN y ELSE x

(***************************************************************************)
(* types.ts                                                                *)
(***************************************************************************)
dtype == {"fp8", "bf16", "fp32", "int8", "int4"}

\* the enum has the single member matmul; "conv" stands for any other kind
\* a caller can pass through a cast
operation == {"matmul", "conv"}

matinfo(shape, dt) == [shape |-> shape, dtype |-> dt]

ShardingConfig(numDevices, lhsShardDim, rhsShardDim) ==
  [numDevices |-> numDevices, lhsShardDim |-> lhsShardDim, rhsShardDim |-> rhsShardDim]

(***************************************************************************)
(* Exceptions: a call either returns a value or throws an Error.           *)
(***************************************************************************)
Return(v) == [threw |-> FALSE, value |-> v]
Throw(e) == [threw |-> TRUE, error |-> e]
\* the rest of a function body after a call that may throw
Then(r, Rest(_)) == IF r.threw THEN r ELSE Rest(r.value)

NotFound(Id) == [message |-> "Matrix with ID not found", id |-> Some(Id)]
MissingConfiguration ==
  [message |-> "Sharding configuration required for multi-node analysis", id |-> Null]
UnsupportedOperation ==
  [message |-> "Only matrix multiplication is supported currently", id |-> Null]

(***************************************************************************)
(* class Matrix                                                            *)
(***************************************************************************)
\* new Matrix(type, lhs, rhs, output); id is the value Math.random() gave
Matrix(id, type, lhs, rhs, output) ==
  [id |-> id, type |-> type, lhs |-> lhs, rhs |-> rhs, output |-> output]

calculateFLOPs_noKindCheck(m) ==
  LET B == m.lhs.shape[1]
      D == m.lhs.shape[2]
      F == m.rhs.shape[2]
  IN Return(NMul(NMul(NMul(Num(2), Num(B)), Num(D)), Num(F)))

calculateFLOPs_usesRhsRows(m) ==
  IF m.type # "matmul" THEN Throw(UnsupportedOperation)
  ELSE LET B == m.lhs.shape[1]
           D == m.rhs.shape[1]
           F == m.rhs.shape[2]
       IN Return(NMul(NMul(NMul(Num(2), Num(B)), Num(D)), Num(F)))

calculateFLOPs(m) ==
  IF m.type # "matmul" THEN Throw(UnsupportedOperation)
  ELSE LET B == m.lhs.shape[1]
           D == m.lhs.shape[2]
           F == m.rhs.shape[2]
       IN Return(NMul(NMul(NMul(Num(2), Num(B)), Num(D)), Num(F)))

bytesPerElement_int4AsByte(dt) ==
  CASE dt = "bf16" -> Num(2)
    [] dt = "fp32" -> Num(4)
    [] dt = "int8" -> Num(1)
    [] dt = "int4" -> Num(1)
    [] dt = "fp8" -> Num(1)

bytesPerElement(dt) ==
  CASE dt = "bf16" -> Num(2)
    [] dt = "fp32" -> Num(4)
    [] dt = "int8" -> Num(1)
    [] dt = "int4" -> Half
    [] dt = "fp8" -> Num(1)

\* shape.reduce((acc, dim) => acc * dim, 1)
RECURSIVE reduceProduct(_, _)
reduceProduct(shape, acc) ==
  IF shape = <<>> THEN acc ELSE reduceProduct(Tail(shape), NMul(acc, Num(Head(shape))))

MatrixBytes(lhsBytes, rhsBytes, outputBytes) ==
  [LHSBytes |-> lhsBytes,
   RHSBytes |-> rhsBytes,
   outputBytes |-> outputBytes,
   totalBytes |-> NAdd(NAdd(lhsBytes, rhsBytes), outputBytes)]

calculateBytes(m) ==
  LET B == m.lhs.shape[1]
      F == m.rhs.shape[2]
  IN MatrixBytes(NMul(reduceProduct(m.lhs.shape, Num(1)), bytesPerElement(m.lhs.dtype)),
                 NMul(reduceProduct(m.rhs.shape, Num(1)), bytesPerElement(m.rhs.dtype)),
                 NMul(NMul(Num(B), Num(F)), bytesPerElement(m.output.dtype)))

arithmeticIntensityOf(bytes, flops) == NDiv(flops, bytes.totalBytes)

calculateArithmeticIntensity(m) ==
  Then(calculateFLOPs(m), LAMBDA flops : Return(arithmeticIntensityOf(calculateBytes(m), flops)))

(***************************************************************************)
(* Math.log2 of a positive integer: exact on powers of two; the odd        *)
(* factors below 16 carry the value of the double to 16 significant digits.*)
(***************************************************************************)
Dec16(hi, lo) == Frac(BAdd(BMul(BN(hi), BPow10(8)), BN(lo)), BPow10(15))

log2Odd(m) ==
  CASE m = 1 -> Num(0)
    [] m = 3 -> Dec16(15849625, 721156)
    [] m = 5 -> Dec16(23219280, 94887362)
    [] m = 7 -> Dec16(28073549, 22057604)
    [] m = 9 -> Dec16(31699250, 1442312)
    [] m = 11 -> Dec16(34594316, 18637297)
    [] m = 13 -> Dec16(37004397, 18141092)
    [] m = 15 -> Dec16(39068905, 95608519)

RECURSIVE log2(_)
log2(n) == IF n % 2 = 0 THEN NAdd(Num(1), log2(n \div 2)) ELSE log2Odd(n)

(***************************************************************************)
(* class TPUv5e                                                            *)
(***************************************************************************)
TPUv5e ==
  [name |-> "TPU v5e",
   type |-> "TPU",
   flopsPerSecondBF16 |-> Sci(197, 12),
   flopsPerSecondINT8 |-> Sci(394, 12),
   hbmCapacity |-> Sci(16, 9),
   hbmBandwidth |-> Sci(81, 10),
   vmemCapacity |-> Sci(128, 6),
   vmemBandwidth |-> Sci(178, 11),
   iciOnewayBandwidth |-> Sci(45, 9),
   iciBidiBandwidth |-> Sci(9, 10),
   pcieBandwidth |-> Sci(15, 9),
   dcnBandwidth |-> Sci(25, 9),
   mxuDimensions |-> <<128, 128>>,
   coresPerChip |-> 1,
   iciTopology |-> "2D",
   maxPodSize |-> <<16, 16>>]

tileUtilization_lastTile(dim, unit) ==
  IF dim % unit = 0 THEN Num(1)
  ELSE NDiv(Num(dim % unit), Num(unit))

\* (dim % unit === 0) ? 1.0 : (dim / Math.ceil(dim / unit) / unit)
tileUtilization(dim, unit) ==
  IF dim % unit = 0 THEN Num(1)
  ELSE NDiv(NDiv(Num(dim), Num(CeilDiv(dim, unit))), Num(unit))

TPUv5e_flopsPerSecond(matrix) ==
  IF matrix.lhs.dtype = "int8" THEN TPUv5e.flopsPerSecondINT8 ELSE TPUv5e.flopsPerSecondBF16

\* lines 204-218 and the returned record
TPUv5e_NodeMetrics_boundAtEquality(totalFLOPs, bytes, arithmeticIntensity, peakHardwareIntensity, computeTime, memoryTime, vmemMemoryTime, mxuUtilization) ==
  [totalFLOPs |-> totalFLOPs,
   bytes |-> bytes,
   arithmeticIntensity |-> arithmeticIntensity,
   peakHardwareIntensity |-> peakHardwareIntensity,
   isComputeBound |-> ~NLt(arithmeticIntensity, peakHardwareIntensity),
   computeTime |-> computeTime,
   memoryTime |-> memoryTime,
   lowerBoundTime |-> NMax(computeTime, memoryTime),
   upperBoundTime |-> NAdd(computeTime, memoryTime),
   mxuUtilization |-> mxuUtilization,
   vmemMetrics |->
     [fitsInVMEM |-> NLe(NAdd(bytes.LHSBytes, bytes.RHSBytes), TPUv5e.vmemCapacity),
      vmemComputeTime |-> computeTime,
      vmemMemoryTime |-> vmemMemoryTime,
      vmemTotalTime |-> NMax(computeTime, vmemMemoryTime),
      vmemSpeedup |-> NDiv(memoryTime, vmemMemoryTime)]]

TPUv5e_NodeMetrics(totalFLOPs, bytes, arithmeticIntensity, peakHardwareIntensity, computeTime, memoryTime, vmemMemoryTime, mxuUtilization) ==
  [totalFLOPs |-> totalFLOPs,
   bytes |-> bytes,
   arithmeticIntensity |-> arithmeticIntensity,
   peakHardwareIntensity |-> peakHardwareIntensity,
   isComputeBound |-> NGt(arithmeticIntensity, peakHardwareIntensity),
   computeTime |-> computeTime,
   memoryTime |-> memoryTime,
   lowerBoundTime |-> NMax(computeTime, memoryTime),
   upperBoundTime |-> NAdd(computeTime, memoryTime),
   mxuUtilization |-> mxuUtilization,
   vmemMetrics |->
     [fitsInVMEM |-> NLe(NAdd(bytes.LHSBytes, bytes.RHSBytes), TPUv5e.vmemCapacity),
      vmemComputeTime |-> computeTime,
      vmemMemoryTime |-> vmemMemoryTime,
      vmemTotalTime |-> NMax(computeTime, vmemMemoryTime),
      vmemSpeedup |-> NDiv(memoryTime, vmemMemoryTime)]]

\* lines 170-202
TPUv5e_metricsOf(matrix, bytes, totalFLOPs, arithmeticIntensity, flopsPerSecond) ==
  LET B == matrix.lhs.shape[1]
      D == matrix.lhs.shape[2]
      F == matrix.rhs.shape[2]
  IN TPUv5e_NodeMetrics(
       totalFLOPs, bytes, arithmeticIntensity,
       NDiv(flopsPerSecond, TPUv5e.hbmBandwidth),
       NDiv(totalFLOPs, flopsPerSecond),
       NDiv(bytes.totalBytes, TPUv5e.hbmBandwidth),
       NDiv(bytes.totalBytes, TPUv5e.vmemBandwidth),
       [lhsUtilization |-> tileUtilization(B, TPUv5e.mxuDimensions[1]),
        rhsUtilizationRows |-> tileUtilization(D, TPUv5e.mxuDimensions[1]),
        rhsUtilizationCols |-> tileUtilization(F, TPUv5e.mxuDimensions[2])])

TPUv5e_calculateSingleNodeMetrics(matrix) ==
  Then(calculateFLOPs(matrix), LAMBDA totalFLOPs :
    Then(calculateArithmeticIntensity(matrix), LAMBDA arithmeticIntensity :
      Return(TPUv5e_metricsOf(matrix, calculateBytes(matrix), totalFLOPs,
                              arithmeticIntensity, TPUv5e_flopsPerSecond(matrix)))))

\* the sharded copy of lines 240-255: a deep copy of the operands with the
\* configured dimensions replaced by Math.ceil(dim / numDevices)
shardDim_modulo(info, dim, numDevices) ==
  IF dim = Null THEN info
  ELSE [info EXCEPT !.shape[dim[1] + 1] = info.shape[dim[1] + 1] % numDevices]

shardDim(info, dim, numDevices) ==
  IF dim = Null THEN info
  ELSE [info EXCEPT !.shape[dim[1] + 1] = CeilDiv(info.shape[dim[1] + 1], numDevices)]

\* (the copy's own identifier, drawn by its constructor, is never read: the
\* model leaves the original's in place)
shardedMatrix(matrix, shardingConfig) ==
  Matrix(matrix.id, matrix.type,
         shardDim(matrix.lhs, shardingConfig.lhsShardDim, shardingConfig.numDevices),
         shardDim(matrix.rhs, shardingConfig.rhsShardDim, shardingConfig.numDevices),
         matrix.output)

\* the registered object after multi-device analysis has run on it: the
\* shard sizes are written to JSON.parse(JSON.stringify(...)) copies
matrixAfterSharding_aliased(matrix, shardingConfig) ==
  shardedMatrix(matrix, shardingConfig)

matrixAfterSharding(matrix, shardingConfig) == matrix

\* matrix.output.dtype === "bf16" ? 2 : matrix.output.dtype === "fp32" ? 4 : 1
communicationBytesPerElement(dt) ==
  IF dt = "bf16" THEN Num(2) ELSE IF dt = "fp32" THEN Num(4) ELSE Num(1)

communicationOutputBytes(matrix) ==
  LET B == matrix.lhs.shape[1]
      F == matrix.rhs.shape[2]
  IN NMul(NMul(Num(B), Num(F)), communicationBytesPerElement(matrix.output.dtype))

needsCollective_anyShard(shardingConfig) ==
  shardingConfig.lhsShardDim # Null \/ shardingConfig.rhsShardDim # Null

needsCollective(shardingConfig) ==
  shardingConfig.lhsShardDim = Some(1) \/ shardingConfig.rhsShardDim = Some(0)

TPUv5e_communicationCost(matrix, shardingConfig) ==
  IF needsCollective(shardingConfig)
  THEN NDiv(NMul(NDiv(communicationOutputBytes(matrix), Num(2)),
                 log2(shardingConfig.numDevices)),
            TPUv5e.iciBidiBandwidth)
  ELSE Num(0)

TPUv5e_MultiNodeMetrics_efficiencyOverCost(perDeviceMetrics, communicationCost, single) ==
  [perDeviceMetrics |-> perDeviceMetrics,
   communicationCost |-> communicationCost,
   totalTime |-> NMax(perDeviceMetrics.lowerBoundTime, communicationCost),
   speedupOverSingleDevice |->
     NDiv(single.lowerBoundTime, NMax(perDeviceMetrics.lowerBoundTime, communicationCost)),
   shardingEfficiency |-> NDiv(perDeviceMetrics.lowerBoundTime, communicationCost)]

\* lines 272-280
TPUv5e_MultiNodeMetrics(perDeviceMetrics, communicationCost, single) ==
  [perDeviceMetrics |-> perDeviceMetrics,
   communicationCost |-> communicationCost,
   totalTime |-> NMax(perDeviceMetrics.lowerBoundTime, communicationCost),
   speedupOverSingleDevice |->
     NDiv(single.lowerBoundTime, NMax(perDeviceMetrics.lowerBoundTime, communicationCost)),
   shardingEfficiency |->
     NDiv(perDeviceMetrics.lowerBoundTime,
          NMax(perDeviceMetrics.lowerBoundTime, communicationCost))]

TPUv5e_calculateMultiNodeMetrics(matrix, shardingConfig) ==
  Then(TPUv5e_calculateSingleNodeMetrics(shardedMatrix(matrix, shardingConfig)),
       LAMBDA perDeviceMetrics :
    Then(TPUv5e_calculateSingleNodeMetrics(matrix), LAMBDA single :
      Return(TPUv5e_MultiNodeMetrics(perDeviceMetrics,
                                     TPUv5e_communicationCost(matrix, shardingConfig),
                                     single))))

Append_if(cond, list, item) == IF cond THEN Append(list, item) ELSE list

NoRecommendations == "No recommendations!"

TPUv5e_generateRecommendations_noSentinel(matrix, metrics) ==
  LET r1 == Append_if(~metrics.isComputeBound, <<>>,
              "Operation is memory-bound. Consider increasing batch size to improve arithmetic intensity.")
      r2 == Append_if(~metrics.isComputeBound
                        /\ matrix.lhs.dtype = "bf16" /\ matrix.rhs.dtype = "bf16", r1,
              "Consider using int8 quantization for weights to reduce memory bandwidth requirements.")
      r3 == Append_if(~metrics.isComputeBound /\ metrics.vmemMetrics.fitsInVMEM, r2,
              "Consider using VMEM to store weights for higher bandwidth access.")
      r4 == Append_if(NLt(metrics.mxuUtilization.lhsUtilization, Frac(BN(9), BN(10)))
                        \/ NLt(metrics.mxuUtilization.rhsUtilizationRows, Frac(BN(9), BN(10)))
                        \/ NLt(metrics.mxuUtilization.rhsUtilizationCols, Frac(BN(9), BN(10))), r3,
              "Consider padding matrix dimensions to multiples of MXU dimensions ("
                \o ToString(TPUv5e.mxuDimensions[1]) \o "x" \o ToString(TPUv5e.mxuDimensions[2])
                \o ") to improve hardware utilization.")
      B == matrix.lhs.shape[1]
      r5 == Append_if(B < 240 /\ matrix.lhs.dtype = "bf16", r4,
              "For bf16 matmul on TPU, batch size should be at least 240 to be compute-bound.")
  IN r5

TPUv5e_generateRecommendations_flatRules(matrix, metrics) ==
  LET r1 == Append_if(~metrics.isComputeBound, <<>>,
              "Operation is memory-bound. Consider increasing batch size to improve arithmetic intensity.")
      r2 == Append_if(matrix.lhs.dtype = "bf16" /\ matrix.rhs.dtype = "bf16", r1,
              "Consider using int8 quantization for weights to reduce memory bandwidth requirements.")
      r3 == Append_if(metrics.vmemMetrics.fitsInVMEM, r2,
              "Consider using VMEM to store weights for higher bandwidth access.")
      r4 == Append_if(NLt(metrics.mxuUtilization.lhsUtilization, Frac(BN(9), BN(10)))
                        \/ NLt(metrics.mxuUtilization.rhsUtilizationRows, Frac(BN(9), BN(10)))
                        \/ NLt(metrics.mxuUtilization.rhsUtilizationCols, Frac(BN(9), BN(10))), r3,
              "Consider padding matrix dimensions to multiples of MXU dimensions ("
                \o ToString(TPUv5e.mxuDimensions[1]) \o "x" \o ToString(TPUv5e.mxuDimensions[2])
                \o ") to improve hardware utilization.")
      B == matrix.lhs.shape[1]
      r5 == Append_if(B < 240 /\ matrix.lhs.dtype = "bf16", r4,
              "For bf16 matmul on TPU, batch size should be at least 240 to be compute-bound.")
  IN IF Len(r5) = 0 THEN <<NoRecommendations>> ELSE r5

TPUv5e_generateRecommendations(matrix, metrics) ==
  LET r1 == Append_if(~metrics.isComputeBound, <<>>,
              "Operation is memory-bound. Consider increasing batch size to improve arithmetic intensity.")
      r2 == Append_if(~metrics.isComputeBound
                        /\ matrix.lhs.dtype = "bf16" /\ matrix.rhs.dtype = "bf16", r1,
              "Consider using int8 quantization for weights to reduce memory bandwidth requirements.")
      r3 == Append_if(~metrics.isComputeBound /\ metrics.vmemMetrics.fitsInVMEM, r2,
              "Consider using VMEM to store weights for higher bandwidth access.")
      r4 == Append_if(NLt(metrics.mxuUtilization.lhsUtilization, Frac(BN(9), BN(10)))
                        \/ NLt(metrics.mxuUtilization.rhsUtilizationRows, Frac(BN(9), BN(10)))
                        \/ NLt(metrics.mxuUtilization.rhsUtilizationCols, Frac(BN(9), BN(10))), r3,
              "Consider padding matrix dimensions to multiples of MXU dimensions ("
                \o ToString(TPUv5e.mxuDimensions[1]) \o "x" \o ToString(TPUv5e.mxuDimensions[2])
                \o ") to improve hardware utilization.")
      B == matrix.lhs.shape[1]
      r5 == Append_if(B < 240 /\ matrix.lhs.dtype = "bf16", r4,
              "For bf16 matmul on TPU, batch size should be at least 240 to be compute-bound.")
  IN IF Len(r5) = 0 THEN <<NoRecommendations>> ELSE r5

(***************************************************************************)
(* class H100                                                              *)
(***************************************************************************)
H100 ==
  [name |-> "NVIDIA H100 SXM5",
   type |-> "GPU",
   flopsPerSecondBF16 |-> Sci(989, 12),
   flopsPerSecondBF16Sparse |-> Sci(1979, 12),
   flopsPerSecondFP32 |-> Sci(67, 12),
   flopsPerSecondINT8 |-> Sci(1979, 12),
   flopsPerSecondFP8 |-> Sci(3958, 12),
   hbmCapacity |-> Sci(80, 9),
   hbmBandwidth |-> Sci(335, 10),
   l2CacheSize |-> Sci(50, 6),
   sharedMemoryPerSM |-> Sci(228, 3),
   nvlinkBandwidth |-> NMul(Sci(9, 10), Num(18)),
   pcieBandwidth |-> Sci(8, 10),
   tensorCoreConfig |-> <<4, 4, 16>>,
   smCount |-> 132,
   maxGpusPerNode |-> 256,
   nvlinkTopology |-> "all-to-all"]

H100_flopsPerSecond(matrix) ==
  CASE matrix.lhs.dtype = "bf16" -> H100.flopsPerSecondBF16
    [] matrix.lhs.dtype = "fp32" -> H100.flopsPerSecondFP32
    [] matrix.lhs.dtype = "int8" -> H100.flopsPerSecondINT8
    [] matrix.lhs.dtype = "fp8" -> H100.flopsPerSecondFP8
    [] OTHER -> H100.flopsPerSecondBF16

MinInt(a, b) == IF a < b THEN a ELSE b

\* lines 509-533
H100_NodeMetrics_upperIsMax(totalFLOPs, bytes, arithmeticIntensity, peakHardwareIntensity, computeTime, memoryTime, tensorCoreUtilization, smOccupancy, canFitWeightsInL2) ==
  LET l2CacheBenefit == IF canFitWeightsInL2 THEN Frac(BN(3), BN(2)) ELSE Num(1)
      effectiveMemoryTime == NDiv(memoryTime, l2CacheBenefit)
  IN [totalFLOPs |-> totalFLOPs,
      bytes |-> bytes,
      arithmeticIntensity |-> arithmeticIntensity,
      peakHardwareIntensity |-> peakHardwareIntensity,
      isComputeBound |-> NGt(arithmeticIntensity, peakHardwareIntensity),
      computeTime |-> computeTime,
      memoryTime |-> memoryTime,
      effectiveMemoryTime |-> effectiveMemoryTime,
      lowerBoundTime |-> NMax(computeTime, effectiveMemoryTime),
      upperBoundTime |-> NMax(computeTime, effectiveMemoryTime),
      tensorCoreUtilization |-> tensorCoreUtilization,
      smOccupancy |-> smOccupancy,
      canFitWeightsInL2 |-> canFitWeightsInL2,
      l2CacheBenefit |-> l2CacheBenefit]

H100_NodeMetrics(totalFLOPs, bytes, arithmeticIntensity, peakHardwareIntensity, computeTime, memoryTime, tensorCoreUtilization, smOccupancy, canFitWeightsInL2) ==
  LET l2CacheBenefit == IF canFitWeightsInL2 THEN Frac(BN(3), BN(2)) ELSE Num(1)
      effectiveMemoryTime == NDiv(memoryTime, l2CacheBenefit)
  IN [totalFLOPs |-> totalFLOPs,
      bytes |-> bytes,
      arithmeticIntensity |-> arithmeticIntensity,
      peakHardwareIntensity |-> peakHardwareIntensity,
      isComputeBound |-> NGt(arithmeticIntensity, peakHardwareIntensity),
      computeTime |-> computeTime,
      memoryTime |-> memoryTime,
      effectiveMemoryTime |-> effectiveMemoryTime,
      lowerBoundTime |-> NMax(computeTime, effectiveMemoryTime),
      upperBoundTime |-> NAdd(computeTime, effectiveMemoryTime),
      tensorCoreUtilization |-> tensorCoreUtilization,
      smOccupancy |-> smOccupancy,
      canFitWeightsInL2 |-> canFitWeightsInL2,
      l2CacheBenefit |-> l2CacheBenefit]

\* lines 501-507
H100_smOccupancy(B, F) ==
  LET warpsPerSM == 64
      threadsPerWarp == 32
      threadsPerBlock == 256
      blocksPerSM == MinInt(16, (warpsPerSM * threadsPerWarp) \div threadsPerBlock)
      blocksNeeded == CeilDiv(B, 32) * CeilDiv(F, 32)
  IN NMin(Num(1), NDiv(Num(blocksNeeded), Num(blocksPerSM * H100.smCount)))

\* lines 459-499
H100_metricsOf_l2CountsLeft(matrix, bytes, totalFLOPs, arithmeticIntensity, flopsPerSecond) ==
  LET B == matrix.lhs.shape[1]
      D == matrix.lhs.shape[2]
      F == matrix.rhs.shape[2]
      tcM == H100.tensorCoreConfig[1]
      tcN == H100.tensorCoreConfig[2]
      tcK == H100.tensorCoreConfig[3]
  IN H100_NodeMetrics(
       totalFLOPs, bytes, arithmeticIntensity,
       NDiv(flopsPerSecond, H100.hbmBandwidth),
       NDiv(totalFLOPs, flopsPerSecond),
       NDiv(bytes.totalBytes, H100.hbmBandwidth),
       [mUtilization |-> tileUtilization(B, tcM),
        nUtilization |-> tileUtilization(F, tcN),
        kUtilization |-> tileUtilization(D, tcK)],
       H100_smOccupancy(B, F),
       NLe(NAdd(bytes.LHSBytes, bytes.RHSBytes), H100.l2CacheSize))

H100_metricsOf(matrix, bytes, totalFLOPs, arithmeticIntensity, flopsPerSecond) ==
  LET B == matrix.lhs.shape[1]
      D == matrix.lhs.shape[2]
      F == matrix.rhs.shape[2]
      tcM == H100.tensorCoreConfig[1]
      tcN == H100.tensorCoreConfig[2]
      tcK == H100.tensorCoreConfig[3]
  IN H100_NodeMetrics(
       totalFLOPs, bytes, arithmeticIntensity,
       NDiv(flopsPerSecond, H100.hbmBandwidth),
       NDiv(totalFLOPs, flopsPerSecond),
       NDiv(bytes.totalBytes, H100.hbmBandwidth),
       [mUtilization |-> tileUtilization(B, tcM),
        nUtilization |-> tileUtilization(F, tcN),
        kUtilization |-> tileUtilization(D, tcK)],
       H100_smOccupancy(B, F),
       NLe(bytes.RHSBytes, H100.l2CacheSize))

H100_calculateSingleNodeMetrics(matrix) ==
  Then(calculateFLOPs(matrix), LAMBDA totalFLOPs :
    Then(calculateArithmeticIntensity(matrix), LAMBDA arithmeticIntensity :
      Return(H100_metricsOf(matrix, calculateBytes(matrix), totalFLOPs,
                            arithmeticIntensity, H100_flopsPerSecond(matrix)))))

\* (outputBytes / 2) * steps / bandwidth
collectiveCost(volume, steps, bandwidth) == NDiv(NMul(volume, steps), bandwidth)

H100_communicationCostOf(outputBytes, numDevices) ==
  IF numDevices <= H100.maxGpusPerNode
  THEN collectiveCost(NDiv(outputBytes, Num(2)), log2(numDevices), H100.nvlinkBandwidth)
  ELSE LET nodesNeeded == CeilDiv(numDevices, H100.maxGpusPerNode)
       IN NAdd(collectiveCost(NDiv(outputBytes, Num(2)), log2(H100.maxGpusPerNode),
                              H100.nvlinkBandwidth),
               collectiveCost(NDiv(outputBytes, Num(nodesNeeded)), log2(nodesNeeded),
                              H100.pcieBandwidth))

H100_communicationCost(matrix, shardingConfig) ==
  IF needsCollective(shardingConfig)
  THEN H100_communicationCostOf(communicationOutputBytes(matrix), shardingConfig.numDevices)
  ELSE Num(0)

\* lines 584-595
H100_MultiNodeMetrics(perDeviceMetrics, communicationCost, single, numDevices) ==
  [perDeviceMetrics |-> perDeviceMetrics,
   communicationCost |-> communicationCost,
   totalTime |-> NMax(perDeviceMetrics.lowerBoundTime, communicationCost),
   speedupOverSingleDevice |->
     NDiv(single.lowerBoundTime, NMax(perDeviceMetrics.lowerBoundTime, communicationCost)),
   shardingEfficiency |->
     NDiv(perDeviceMetrics.lowerBoundTime,
          NMax(perDeviceMetrics.lowerBoundTime, communicationCost)),
   scalingEfficiency |->
     NDiv(NDiv(single.lowerBoundTime,
               NMax(perDeviceMetrics.lowerBoundTime, communicationCost)),
          Num(numDevices))]

H100_calculateMultiNodeMetrics(matrix, shardingConfig) ==
  Then(H100_calculateSingleNodeMetrics(shardedMatrix(matrix, shardingConfig)),
       LAMBDA perDeviceMetrics :
    Then(H100_calculateSingleNodeMetrics(matrix), LAMBDA single :
      Return(H100_MultiNodeMetrics(perDeviceMetrics,
                                   H100_communicationCost(matrix, shardingConfig),
                                   single, shardingConfig.numDevices))))

H100_generateRecommendations(matrix, metrics) ==
  LET r1 == Append_if(~metrics.isComputeBound, <<>>,
              "Operation is memory-bound. Consider increasing batch size to improve arithmetic intensity.")
      r2 == Append_if(~metrics.isComputeBound
                        /\ matrix.lhs.dtype = "bf16" /\ matrix.rhs.dtype = "bf16", r1,
              "Consider using FP8 precision to reduce memory bandwidth requirements and increase compute throughput.")
      r3 == Append_if(~metrics.isComputeBound, r2,
              "Consider using structured sparsity to potentially double compute throughput.")
      r4 == Append_if(NLt(metrics.tensorCoreUtilization.mUtilization, Frac(BN(9), BN(10)))
                        \/ NLt(metrics.tensorCoreUtilization.nUtilization, Frac(BN(9), BN(10)))
                        \/ NLt(metrics.tensorCoreUtilization.kUtilization, Frac(BN(9), BN(10))), r3,
              "Consider padding matrix dimensions to multiples of tensor core dimensions ("
                \o ToString(H100.tensorCoreConfig[1]) \o "x" \o ToString(H100.tensorCoreConfig[2])
                \o "x" \o ToString(H100.tensorCoreConfig[3])
                \o ") to improve hardware utilization.")
      B == matrix.lhs.shape[1]
      r5 == Append_if(B < 300 /\ matrix.lhs.dtype = "bf16", r4,
              "For bf16 matmul on H100, batch size should be at least 300 to be compute-bound.")
      r6 == Append_if(B % 32 # 0 \/ matrix.rhs.shape[2] % 32 # 0 \/ matrix.lhs.shape[2] % 16 # 0, r5,
              "For optimal CUDA kernel performance, consider using dimensions that are multiples of 32 for M and N, and 16 for K.")
  IN IF Len(r6) = 0 THEN <<NoRecommendations>> ELSE r6
(***************************************************************************)
(* The loop variable of the roofline sweep, for (let i = -1; i <= 4;        *)
(* i += 0.1): an IEEE-754 double, held as <<hi, lo>> for the value          *)
(* (hi * 2^28 + lo) * 2^-56 with 0 <= lo < 2^28.  Every double the loop can *)
(* reach is a multiple of 2^-56.                                            *)
(***************************************************************************)
DoubleMinusOne == <<-(2^28), 0>>
DoubleFour == <<2^30, 0>>
\* 0.1 is the double 0x1.999999999999ap-4
DoubleTenth == <<26843545, 161061274>>

\* i <= j
DoubleLe(i, j) == i[1] < j[1] \/ (i[1] = j[1] /\ i[2] <= j[2])

\* bits of hi * 2^28 + lo beyond the 53 a double keeps
RECURSIVE excessBits(_)
excessBits(magHi) == IF magHi < 2^25 THEN 0 ELSE 1 + excessBits(magHi \div 2)

\* round to nearest, ties to even
DoubleRound(hi, lo) ==
  LET magHi == IF hi >= 0 THEN hi ELSE IF lo = 0 THEN -hi ELSE -hi - 1
      q == 2^excessBits(magHi)
      r == lo % q
      down == lo - r
      up == r * 2 > q \/ (r * 2 = q /\ (down \div q) % 2 = 1)
      rounded == IF up THEN down + q ELSE down
  IN IF rounded = 2^28 THEN <<hi + 1, 0>> ELSE <<hi, rounded>>

\* i + j of doubles
DoubleAdd(i, j) ==
  LET lo == i[2] + j[2]
  IN DoubleRound(i[1] + j[1] + lo \div 2^28, lo % 2^28)

\* the values i takes in the loop, in order
RECURSIVE loopValues(_)
loopValues(i) ==
  IF DoubleLe(i, DoubleFour) THEN <<i>> \o loopValues(DoubleAdd(i, DoubleTenth)) ELSE <<>>

\* the multiple of 0.1 nearest to i, in tenths
nearestTenth(i) == ((i[1] \div 2^10) * 10 + 2^17) \div 2^18

\* a decimal of 17 significant digits: (hi * 10^9 + lo) * 10^e, e < 0
Dec17(hi, lo, e) == Frac(BAdd(BMul(BN(hi), BPow10(9)), BN(lo)), BPow10(-e))

(***************************************************************************)
(* Math.pow(10, i) at the doubles the sweep visits, to 17 significant      *)
(* digits, keyed by the tenth nearest to i.                                *)
(***************************************************************************)
pow10(i) ==
  LET j == nearestTenth(i)
  IN
  CASE j = -10 -> Dec17(10000000, 0, -17)
    [] j = -9 -> Dec17(12589254, 117941673, -17)
    [] j = -8 -> Dec17(15848931, 924611134, -17)
    [] j = -7 -> Dec17(19952623, 149688792, -17)
    [] j = -6 -> Dec17(25118864, 315095796, -17)
    [] j = -5 -> Dec17(31622776, 601683783, -17)
    [] j = -4 -> Dec17(39810717, 55349715, -17)
    [] j = -3 -> Dec17(50118723, 362727210, -17)
    [] j = -2 -> Dec17(63095734, 448019300, -17)
    [] j = -1 -> Dec17(79432823, 472428130, -17)
    [] j = 0 -> Dec17(99999999, 999999970, -17)
    [] j = 1 -> Dec17(12589254, 117941668, -16)
    [] j = 2 -> Dec17(15848931, 924611130, -16)
    [] j = 3 -> Dec17(19952623, 149688790, -16)
    [] j = 4 -> Dec17(25118864, 315095797, -16)
    [] j = 5 -> Dec17(31622776, 601683786, -16)
    [] j = 6 -> Dec17(39810717, 55349714, -16)
    [] j = 7 -> Dec17(50118723, 362727210, -16)
    [] j = 8 -> Dec17(63095734, 448019300, -16)
    [] j = 9 -> Dec17(79432823, 472428110, -16)
    [] j = 10 -> Dec17(99999999, 999999950, -16)
    [] j = 11 -> Dec17(12589254, 117941667, -15)
    [] j = 12 -> Dec17(15848931, 924611133, -15)
    [] j = 13 -> Dec17(19952623, 149688797, -15)
    [] j = 14 -> Dec17(25118864, 315095810, -15)
    [] j = 15 -> Dec17(31622776, 601683810, -15)
    [] j = 16 -> Dec17(39810717, 55349755, -15)
    [] j = 17 -> Dec17(50118723, 362727270, -15)
    [] j = 18 -> Dec17(63095734, 448019390, -15)
    [] j = 19 -> Dec17(79432823, 472428250, -15)
    [] j = 20 -> Dec17(10000000, 10, -14)
    [] j = 21 -> Dec17(12589254, 117941688, -14)
    [] j = 22 -> Dec17(15848931, 924611156, -14)
    [] j = 23 -> Dec17(19952623, 149688830, -14)
    [] j = 24 -> Dec17(25118864, 315095848, -14)
    [] j = 25 -> Dec17(31622776, 601683860, -14)
    [] j = 26 -> Dec17(39810717, 55349810, -14)
    [] j = 27 -> Dec17(50118723, 362727354, -14)
    [] j = 28 -> Dec17(63095734, 448019490, -14)
    [] j = 29 -> Dec17(79432823, 472428380, -14)
    [] j = 30 -> Dec17(10000000, 31, -13)
    [] j = 31 -> Dec17(12589254, 117941714, -13)
    [] j = 32 -> Dec17(15848931, 924611190, -13)
    [] j = 33 -> Dec17(19952623, 149688870, -13)
    [] j = 34 -> Dec17(25118864, 315095900, -13)
    [] j = 35 -> Dec17(31622776, 601683922, -13)
    [] j = 36 -> Dec17(39810717, 55349896, -13)
    [] j = 37 -> Dec17(50118723, 362727450, -13)
    [] j = 38 -> Dec17(63095734, 448019620, -13)
    [] j = 39 -> Dec17(79432823, 472428540, -13)

intensityPoint_uncapped(i, peakFlops, hbmBandwidth, metrics) ==
  LET intensity == pow10(i)
  IN [intensity |-> intensity,
      achievableFlops |-> NMul(hbmBandwidth, intensity),
      peakFlops |-> peakFlops,
      memoryBound |-> NLt(intensity, metrics.peakHardwareIntensity)]

\* lines 337-345 and 674-683: one point of the sweep
intensityPoint(i, peakFlops, hbmBandwidth, metrics) ==
  LET intensity == pow10(i)
  IN [intensity |-> intensity,
      achievableFlops |-> NMin(peakFlops, NMul(hbmBandwidth, intensity)),
      peakFlops |-> peakFlops,
      memoryBound |-> NLt(intensity, metrics.peakHardwareIntensity)]

RooflineData_matrixPointOnSlope(peakFlops, hbmBandwidth, metrics) ==
  LET is == loopValues(DoubleMinusOne)
  IN [intensityPoints |->
        [k \in 1..Len(is) |-> intensityPoint(is[k], peakFlops, hbmBandwidth, metrics)],
      matrixPoint |->
        [intensity |-> metrics.arithmeticIntensity,
         achievableFlops |-> NMul(hbmBandwidth, metrics.arithmeticIntensity),
         isCurrentMatrix |-> TRUE],
      peakHardwareIntensity |-> metrics.peakHardwareIntensity,
      peakFlops |-> peakFlops]

RooflineData(peakFlops, hbmBandwidth, metrics) ==
  LET is == loopValues(DoubleMinusOne)
  IN [intensityPoints |->
        [k \in 1..Len(is) |-> intensityPoint(is[k], peakFlops, hbmBandwidth, metrics)],
      matrixPoint |->
        [intensity |-> metrics.arithmeticIntensity,
         achievableFlops |-> IF metrics.isComputeBound THEN peakFlops
                             ELSE NMul(hbmBandwidth, metrics.arithmeticIntensity),
         isCurrentMatrix |-> TRUE],
      peakHardwareIntensity |-> metrics.peakHardwareIntensity,
      peakFlops |-> peakFlops]

TPUv5e_generateRooflineData(matrix, metrics) ==
  RooflineData(IF matrix.lhs.dtype = "int8" THEN TPUv5e.flopsPerSecondINT8
               ELSE TPUv5e.flopsPerSecondBF16,
               TPUv5e.hbmBandwidth, metrics)

H100_generateRooflineData(matrix, metrics) ==
  RooflineData(CASE matrix.lhs.dtype = "bf16" -> H100.flopsPerSecondBF16
                 [] matrix.lhs.dtype = "fp32" -> H100.flopsPerSecondFP32
                 [] matrix.lhs.dtype = "int8" -> H100.flopsPerSecondINT8
                 [] matrix.lhs.dtype = "fp8" -> H100.flopsPerSecondFP8
                 [] OTHER -> H100.flopsPerSecondBF16,
               H100.hbmBandwidth, metrics)

generateRooflineData(h, matrix, metrics) ==
  IF h = "TPUv5e" THEN TPUv5e_generateRooflineData(matrix, metrics)
  ELSE H100_generateRooflineData(matrix, metrics)

(***************************************************************************)
(* The profile instance: hw is its class, matrices its registry.           *)
(***************************************************************************)
Hardware == {"TPUv5e", "H100"}

calculateSingleNodeMetrics(h, matrix) ==
  IF h = "TPUv5e" THEN TPUv5e_calculateSingleNodeMetrics(matrix)
  ELSE H100_calculateSingleNodeMetrics(matrix)

calculateMultiNodeMetrics(h, matrix, shardingConfig) ==
  IF h = "TPUv5e" THEN TPUv5e_calculateMultiNodeMetrics(matrix, shardingConfig)
  ELSE H100_calculateMultiNodeMetrics(matrix, shardingConfig)

generateRecommendations(h, matrix, metrics) ==
  IF h = "TPUv5e" THEN TPUv5e_generateRecommendations(matrix, metrics)
  ELSE H100_generateRecommendations(matrix, metrics)

\* this.matrices.find(m => m.id === Id): the position of the first match, 0 if none
RECURSIVE findFrom(_, _, _)
findFrom(ms, Id, k) ==
  IF k > Len(ms) THEN 0
  ELSE IF ms[k].id = Id THEN k
  ELSE findFrom(ms, Id, k + 1)

find(ms, Id) == findFrom(ms, Id, 1)

addMatrix(ms, id, type, lhs, rhs, output) == Append(ms, Matrix(id, type, lhs, rhs, output))

metricsOf_multiWheneverConfigured(h, matrix, mN, sC) ==
  Then(calculateSingleNodeMetrics(h, matrix), LAMBDA singleNodeMetrics :
    IF sC # Null
    THEN Then(calculateMultiNodeMetrics(h, matrix, sC[1]), LAMBDA multiNodeMetrics :
           Return([singleNode |-> singleNodeMetrics, multiNode |-> Some(multiNodeMetrics)]))
    ELSE Return([singleNode |-> singleNodeMetrics, multiNode |-> Null]))

\* lines 155-165
metricsOf(h, matrix, mN, sC) ==
  Then(calculateSingleNodeMetrics(h, matrix), LAMBDA singleNodeMetrics :
    IF mN /\ sC # Null
    THEN Then(calculateMultiNodeMetrics(h, matrix, sC[1]), LAMBDA multiNodeMetrics :
           Return([singleNode |-> singleNodeMetrics, multiNode |-> Some(multiNodeMetrics)]))
    ELSE Return([singleNode |-> singleNodeMetrics, multiNode |-> Null]))

performanceMetrics_configCheckedFirst(h, ms, Id, mN, sC) ==
  LET k == find(ms, Id)
  IN IF mN /\ sC = Null THEN Throw(MissingConfiguration)
     ELSE IF k = 0 THEN Throw(NotFound(Id))
     ELSE metricsOf(h, ms[k], mN, sC)

performanceMetrics(h, ms, Id, mN, sC) ==
  LET k == find(ms, Id)
  IN IF k = 0 THEN Throw(NotFound(Id))
     ELSE IF mN /\ sC = Null THEN Throw(MissingConfiguration)
     ELSE metricsOf(h, ms[k], mN, sC)

\* the registry after performanceMetrics: only _calculateMultiNodeMetrics
\* touches objects, and only when the call gets that far
matricesAfterMetrics(h, ms, Id, mN, sC) ==
  LET k == find(ms, Id)
  IN IF k # 0 /\ mN /\ sC # Null /\ ~calculateFLOPs(ms[k]).threw
     THEN [ms EXCEPT ![k] = matrixAfterSharding(ms[k], sC[1])]
     ELSE ms

analyze(h, ms, matrixId) ==
  LET k == find(ms, matrixId)
  IN IF k = 0 THEN Throw(NotFound(matrixId))
     ELSE Then(calculateSingleNodeMetrics(h, ms[k]), LAMBDA m :
            Return([m |-> m,
                    r |-> generateRecommendations(h, ms[k], m),
                    d |-> generateRooflineData(h, ms[k], m)]))

(***************************************************************************)
(* Inputs.                                                                 *)
(***************************************************************************)
\* identifiers Math.random().toString(36).substr(2, 9) can give
IdSpace == {"k3x9w0q2a", "p07qzr5bd"}
\* an identifier no registration returned
UnknownId == "zzzzzzzzz"
QueryIds == IdSpace \cup {UnknownId}

ShardDims == {Null, Some(0), Some(1)}

NoCall ==
  [call |-> "none", k |-> 0, Id |-> Null, mN |-> FALSE, sC |-> Null, result |-> Return(Null)]

\* k: the registered Matrix object a method was called on (0: a profile method)
Called(call, k, Id, mN, sC, result) ==
  [call |-> call, k |-> k, Id |-> Some(Id), mN |-> mN, sC |-> sC, result |-> result]

(***************************************************************************)
(* Actions: one per public method.  The engine is synchronous: a call is   *)
(* made when no result is pending, ret records the call and what it        *)
(* returned or threw, and the caller takes the result before calling again.*)
(***************************************************************************)
AddMatrix(id, type, lhs, rhs, output) ==
  /\ ret = NoCall
  /\ Len(matrices) < MaxMatrices
  /\ matrices' = addMatrix(matrices, id, type, lhs, rhs, output)
  /\ ret' = Called("addMatrix", 0, id, FALSE, Null, Return(id))
  /\ UNCHANGED hw

PerformanceMetrics(Id, mN, sC) ==
  /\ ret = NoCall
  /\ ret' = Called("performanceMetrics", 0, Id, mN, sC,
                   performanceMetrics(hw, matrices, Id, mN, sC))
  /\ matrices' = matricesAfterMetrics(hw, matrices, Id, mN, sC)
  /\ UNCHANGED hw

Analyze(matrixId) ==
  /\ ret = NoCall
  /\ ret' = Called("analyze", 0, matrixId, FALSE, Null, analyze(hw, matrices, matrixId))
  /\ UNCHANGED <<hw, matrices>>

\* the methods of a Matrix object, called on the k-th registered one
CalculateFLOPs(k) ==
  /\ ret = NoCall
  /\ ret' = Called("calculateFLOPs", k, matrices[k].id, FALSE, Null, calculateFLOPs(matrices[k]))
  /\ UNCHANGED <<hw, matrices>>

CalculateBytes(k) ==
  /\ ret = NoCall
  /\ ret' = Called("calculateBytes", k, matrices[k].id, FALSE, Null,
                   Return(calculateBytes(matrices[k])))
  /\ UNCHANGED <<hw, matrices>>

CalculateArithmeticIntensity(k) ==
  /\ ret = NoCall
  /\ ret' = Called("calculateArithmeticIntensity", k, matrices[k].id, FALSE, Null,
                   calculateArithmeticIntensity(matrices[k]))
  /\ UNCHANGED <<hw, matrices>>

\* the caller takes the result (as analyse() of the page does) and goes on
TakeResult ==
  /\ ret # NoCall
  /\ ret' = NoCall
  /\ UNCHANGED <<hw, matrices>>

(***************************************************************************)
(* Spec: registrations and calls on one profile instance.                  *)
(***************************************************************************)
Operation(type, lhs, rhs, dt) == [type |-> type, lhs |-> lhs, rhs |-> rhs, output |-> [dtype |-> dt]]

RegistryOperations ==
  {Operation("matmul", matinfo(<<100, 128>>, "bf16"), matinfo(<<128, 256>>, "bf16"), "bf16"),
   Operation("matmul", matinfo(<<120, 120>>, "fp32"), matinfo(<<120, 120>>, "fp32"), "fp32"),
   Operation("conv", matinfo(<<100, 128>>, "bf16"), matinfo(<<128, 256>>, "bf16"), "bf16")}

RegistryConfigs ==
  {Null, Some(ShardingConfig(2, Some(0), Null)), Some(ShardingConfig(MaxDevices, Some(1), Some(0)))}

Init ==
  /\ hw \in Hardware
  /\ matrices = <<>>
  /\ ret = NoCall

Next ==
  \/ \E id \in IdSpace, op \in RegistryOperations :
       AddMatrix(id, op.type, op.lhs, op.rhs, op.output)
  \/ \E Id \in QueryIds, mN \in BOOLEAN, sC \in RegistryConfigs : PerformanceMetrics(Id, mN, sC)
  \/ \E matrixId \in QueryIds : Analyze(matrixId)
  \/ \E k \in 1..Len(matrices) : CalculateFLOPs(k)
  \/ \E k \in 1..Len(matrices) : CalculateBytes(k)
  \/ \E k \in 1..Len(matrices) : CalculateArithmeticIntensity(k)
  \/ TakeResult

Spec == Init /\ [][Next]_vars

(***************************************************************************)
(* CalcSpec: one registered operation drawn from a range of shapes and     *)
(* element types, analysed under every sharding configuration up to        *)
(* MaxDevices.                                                             *)
(***************************************************************************)
TheId == "k3x9w0q2a"

\* <<left shape, right shape>>
CalcShapes ==
  {<<<<0, 0>>, <<0, 0>>>>,
   <<<<0, 5>>, <<5, 3>>>>,
   <<<<7, 5>>, <<5, 3>>>>,
   <<<<4, 6>>, <<8, 2>>>>,
   <<<<100, 128>>, <<128, 256>>>>,
   <<<<120, 120>>, <<120, 120>>>>,
   <<<<768, 768>>, <<768, 768>>>>,
   <<<<197, 350>>, <<350, 6895>>>>,
   <<<<8192, 8>>, <<8, 8192>>>>,
   <<<<1, 64000000>>, <<64000000, 1>>>>,
   <<<<1, 50000000>>, <<50000000, 1>>>>,
   <<<<64000000, 1>>, <<1, 1>>>>}

\* <<left, right, output>> element types
CalcTypes ==
  {<<"bf16", "bf16", "bf16">>, <<"fp32", "fp32", "fp32">>, <<"int8", "int8", "int8">>,
   <<"int4", "int4", "int4">>, <<"bf16", "fp8", "fp8">>}

CalcOperations ==
  {Operation("matmul", matinfo(sh[1], ty[1]), matinfo(sh[2], ty[2]), ty[3]) :
     sh \in CalcShapes, ty \in CalcTypes}
    \cup {Operation("conv", matinfo(<<7, 5>>, "bf16"), matinfo(<<5, 3>>, "bf16"), "bf16")}

CalcConfigs ==
  {Null} \cup {Some(ShardingConfig(n, l, r)) : n \in 1..MaxDevices, l \in ShardDims, r \in ShardDims}

CalcInit ==
  /\ hw \in Hardware
  /\ \E op \in CalcOperations : matrices = addMatrix(<<>>, TheId, op.type, op.lhs, op.rhs, op.output)
  /\ ret = NoCall

\* <<multi-device flag, configuration>>
CalcRequests ==
  {<<TRUE, sC>> : sC \in CalcConfigs} \cup {<<FALSE, sC>> : sC \in RegistryConfigs}

CalcNext ==
  \/ \E Id \in {TheId, UnknownId}, rq \in CalcRequests : PerformanceMetrics(Id, rq[1], rq[2])
  \/ \E matrixId \in {TheId, UnknownId} : Analyze(matrixId)
  \/ \E k \in 1..Len(matrices) : CalculateFLOPs(k)
  \/ \E k \in 1..Len(matrices) : CalculateBytes(k)
  \/ \E k \in 1..Len(matrices) : CalculateArithmeticIntensity(k)
  \/ TakeResult

CalcSpec == CalcInit /\ [][CalcNext]_vars

(***************************************************************************)
(* MatrixSpec: the methods of one Matrix object, for every combination of  *)
(* element types.                                                          *)
(***************************************************************************)
MatrixLhsShapes == {<<0, 0>>, <<7, 5>>, <<100, 128>>}
MatrixRhsShapes == {<<0, 0>>, <<5, 3>>, <<128, 256>>}

MatrixInit ==
  /\ hw \in Hardware
  /\ \E type \in operation, ls \in MatrixLhsShapes, lt \in dtype,
        rs \in MatrixRhsShapes, rt \in dtype, ot \in dtype :
       matrices = addMatrix(<<>>, TheId, type, matinfo(ls, lt), matinfo(rs, rt), [dtype |-> ot])
  /\ ret = NoCall

MatrixNext ==
  \/ \E k \in 1..Len(matrices) : CalculateFLOPs(k)
  \/ \E k \in 1..Len(matrices) : CalculateBytes(k)
  \/ \E k \in 1..Len(matrices) : CalculateArithmeticIntensity(k)
  \/ TakeResult

MatrixSpec == MatrixInit /\ [][MatrixNext]_vars

(***************************************************************************)
(* What the last call was made on, and the single-device metrics it        *)
(* returned: <<operation analysed, metrics>>.                              *)
(***************************************************************************)
CalledOn == matrices[IF ret.k # 0 THEN ret.k ELSE find(matrices, ret.Id[1])]
IsRegistered(Id) == \E k \in 1..Len(matrices) : matrices[k].id = Id
Returned(call) == ret.call = call /\ ~ret.result.threw
Threw(call, e) == ret.call = call /\ ret.result = Throw(e)

ReturnedNodeMetrics ==
  IF Returned("performanceMetrics")
  THEN {<<CalledOn, ret.result.value.singleNode>>}
         \cup (IF ret.result.value.multiNode = Null THEN {}
               ELSE {<<shardedMatrix(CalledOn, ret.sC[1]),
                       ret.result.value.multiNode[1].perDeviceMetrics>>})
  ELSE IF Returned("analyze") THEN {<<CalledOn, ret.result.value.m>>}
  ELSE {}

FLOPsOf(m) == 2 * m.lhs.shape[1] * m.lhs.shape[2] * m.rhs.shape[2]

\* C1: calculateFLOPs of a matmul with left shape (B, D) and right shape
\* (D2, F) returns exactly 2*B*D*F, and so does the totalFLOPs field of the
\* single-device metrics of both profiles.
C1_FLOPs ==
  /\ ret.call = "calculateFLOPs" /\ CalledOn.type = "matmul"
       => ~ret.result.threw /\ NEq(ret.result.value, Num(FLOPsOf(CalledOn)))
  /\ \A p \in ReturnedNodeMetrics : NEq(p[2].totalFLOPs, Num(FLOPsOf(p[1])))

C1_Witness ==
  /\ Returned("performanceMetrics")
  /\ hw = "TPUv5e"
  /\ CalledOn.lhs.shape = <<4, 6>> /\ CalledOn.rhs.shape = <<8, 2>>
  /\ NEq(ret.result.value.singleNode.totalFLOPs, Num(96))

\* twice the byte width of the table (fp8 1, bf16 2, fp32 4, int8 1, int4 0.5)
TwiceWidth(dt) ==
  CASE dt = "fp8" -> 2 [] dt = "bf16" -> 4 [] dt = "fp32" -> 8 [] dt = "int8" -> 2 [] dt = "int4" -> 1

Halves(i) == Frac(BN(i), BN(2))

\* C2: calculateBytes returns rows*cols*width for each operand, leftRows *
\* rightCols * width for the output, and totalBytes is exactly their sum, for
\* every combination of the five element types.
C2_Bytes ==
  Returned("calculateBytes") =>
    LET m == CalledOn
        b == ret.result.value
        l2 == m.lhs.shape[1] * m.lhs.shape[2] * TwiceWidth(m.lhs.dtype)
        r2 == m.rhs.shape[1] * m.rhs.shape[2] * TwiceWidth(m.rhs.dtype)
        o2 == m.lhs.shape[1] * m.rhs.shape[2] * TwiceWidth(m.output.dtype)
    IN /\ NEq(b.LHSBytes, Halves(l2))
       /\ NEq(b.RHSBytes, Halves(r2))
       /\ NEq(b.outputBytes, Halves(o2))
       /\ NEq(b.totalBytes, Halves(l2 + r2 + o2))

C2_Witness ==
  /\ Returned("calculateBytes")
  /\ CalledOn.lhs = matinfo(<<7, 5>>, "int4")
  /\ CalledOn.rhs = matinfo(<<5, 3>>, "bf16")
  /\ CalledOn.output.dtype = "fp32"
  /\ NEq(ret.result.value.totalBytes, Halves(263))

hbmBandwidth(h) == IF h = "TPUv5e" THEN TPUv5e.hbmBandwidth ELSE H100.hbmBandwidth
flopsPerSecond(h, m) == IF h = "TPUv5e" THEN TPUv5e_flopsPerSecond(m) ELSE H100_flopsPerSecond(m)

\* C3: in single-device metrics isComputeBound is true iff arithmeticIntensity
\* is strictly greater than peakHardwareIntensity, which is the selected
\* throughput over hbmBandwidth; when the two are equal it is false.
C3_ComputeBound ==
  \A p \in ReturnedNodeMetrics :
    /\ NEq(p[2].peakHardwareIntensity, NDiv(flopsPerSecond(hw, p[1]), hbmBandwidth(hw)))
    /\ p[2].isComputeBound <=> NGt(p[2].arithmeticIntensity, p[2].peakHardwareIntensity)
    /\ NEq(p[2].arithmeticIntensity, p[2].peakHardwareIntensity) => ~p[2].isComputeBound

C3_Witness ==
  /\ Returned("performanceMetrics")
  /\ hw = "TPUv5e"
  /\ NEq(ret.result.value.singleNode.arithmeticIntensity,
         ret.result.value.singleNode.peakHardwareIntensity)
  /\ ~ret.result.value.singleNode.isComputeBound

\* the memory time the bounds are built from
boundMemoryTime(h, metrics) ==
  IF h = "TPUv5e" THEN metrics.memoryTime ELSE metrics.effectiveMemoryTime

\* C4: lowerBoundTime <= upperBoundTime, with equality iff computeTime is zero
\* or the memory time used in the bounds is zero.
C4_Bounds ==
  \A p \in ReturnedNodeMetrics :
    /\ NLe(p[2].lowerBoundTime, p[2].upperBoundTime)
    /\ NEq(p[2].lowerBoundTime, p[2].upperBoundTime)
         <=> (IsZero(p[2].computeTime) \/ IsZero(boundMemoryTime(hw, p[2])))

C4_Witness ==
  /\ Returned("performanceMetrics")
  /\ hw = "H100"
  /\ IsZero(ret.result.value.singleNode.computeTime)
  /\ ~IsZero(ret.result.value.singleNode.effectiveMemoryTime)
  /\ NEq(ret.result.value.singleNode.lowerBoundTime, ret.result.value.singleNode.upperBoundTime)

\* C5: performanceMetrics or analyze with an identifier no registration on
\* this instance returned throws the not-found error, whatever the
\* multi-device flag and the sharding configuration are.
C5_NotFound ==
  ret.call \in {"performanceMetrics", "analyze"} /\ ~IsRegistered(ret.Id[1])
    => ret.result = Throw(NotFound(ret.Id[1]))

C5_Witness ==
  /\ Threw("performanceMetrics", NotFound(UnknownId))
  /\ Len(matrices) = MaxMatrices
  /\ ret.mN /\ ret.sC = Null

\* C6: for a registered identifier, performanceMetrics with the multi-device
\* flag and no configuration throws the missing-configuration error (so no
\* metrics are returned); without the flag it never throws that error, and
\* what it returns has multiNode = null even when a configuration is given.
C6_MissingConfiguration ==
  ret.call = "performanceMetrics" /\ IsRegistered(ret.Id[1]) =>
    /\ ret.mN /\ ret.sC = Null => ret.result = Throw(MissingConfiguration)
    /\ ~ret.mN => /\ ret.result # Throw(MissingConfiguration)
                  /\ CalledOn.type = "matmul" => ~ret.result.threw
                  /\ ~ret.result.threw => ret.result.value.multiNode = Null

C6_Witness ==
  /\ Returned("performanceMetrics")
  /\ ~ret.mN /\ ret.sC # Null
  /\ ret.result.value.multiNode = Null

\* C7: an operation whose kind is not matmul can be registered, and every
\* request that gets to need its FLOPs (calculateFLOPs,
\* calculateArithmeticIntensity, performanceMetrics, analyze) throws the
\* unsupported-operation error and returns nothing.
C7_UnsupportedOperation ==
  /\ ret.call = "addMatrix" => ~ret.result.threw /\ matrices[Len(matrices)].id = ret.Id[1]
  /\ ret.call \in {"calculateFLOPs", "calculateArithmeticIntensity"} /\ CalledOn.type # "matmul"
       => ret.result = Throw(UnsupportedOperation)
  /\ ret.call = "analyze" /\ IsRegistered(ret.Id[1]) /\ CalledOn.type # "matmul"
       => ret.result = Throw(UnsupportedOperation)
  /\ ret.call = "performanceMetrics" /\ IsRegistered(ret.Id[1]) /\ CalledOn.type # "matmul"
       => ret.result = Throw(IF ret.mN /\ ret.sC = Null THEN MissingConfiguration
                             ELSE UnsupportedOperation)

C7_Witness ==
  /\ Threw("performanceMetrics", UnsupportedOperation)
  /\ CalledOn.type = "conv"
  /\ ret.mN /\ ret.sC # Null

\* C8: after any sequence of addMatrix calls all registered operations have
\* pairwise distinct identifiers, so that the identifier the k-th
\* registration returned looks up the k-th operation and no other.
C8_DistinctIds ==
  /\ \A i, j \in 1..Len(matrices) : i # j => matrices[i].id # matrices[j].id
  /\ \A k \in 1..Len(matrices) : find(matrices, matrices[k].id) = k

\* C9: the registry only grows: addMatrix appends exactly one operation and
\* leaves the earlier ones as they are, and no other call adds, removes or
\* modifies a registered operation (multi-device analysis shards a copy).
C9_RegistryOnlyGrows ==
  [][IF ret'.call = "addMatrix"
     THEN /\ Len(matrices') = Len(matrices) + 1
          /\ SubSeq(matrices', 1, Len(matrices)) = matrices
     ELSE matrices' = matrices]_vars

C9_Witness ==
  /\ Returned("performanceMetrics")
  /\ Len(matrices) = MaxMatrices
  /\ ret.result.value.multiNode # Null
  /\ ~NEq(ret.result.value.multiNode[1].perDeviceMetrics.totalFLOPs,
          ret.result.value.singleNode.totalFLOPs)

\* C10: with the operation and the sharded dimensions fixed, the per-device
\* totalFLOPs does not increase as numDevices grows, and never exceeds the
\* FLOPs of the unsharded operation.
C10_ShardedFLOPsMonotone ==
  Returned("performanceMetrics") /\ ret.result.value.multiNode # Null =>
    LET perDevice == ret.result.value.multiNode[1].perDeviceMetrics.totalFLOPs
    IN /\ NLe(perDevice, ret.result.value.singleNode.totalFLOPs)
       /\ \A n \in 1..(ret.sC[1].numDevices - 1) :
            NLe(perDevice,
                calculateFLOPs(shardedMatrix(CalledOn, [ret.sC[1] EXCEPT !.numDevices = n])).value)

C10_Witness ==
  /\ Returned("performanceMetrics")
  /\ ret.result.value.multiNode # Null
  /\ ret.sC[1] = ShardingConfig(MaxDevices, Some(0), Null)
  /\ CalledOn.lhs.shape = <<7, 5>>
  /\ NLt(ret.result.value.multiNode[1].perDeviceMetrics.totalFLOPs,
         calculateFLOPs(shardedMatrix(CalledOn, ShardingConfig(MaxDevices - 1, Some(0), Null))).value)

PositiveDimensions(m) ==
  m.lhs.shape[1] > 0 /\ m.lhs.shape[2] > 0 /\ m.rhs.shape[1] > 0 /\ m.rhs.shape[2] > 0

ReturnedMultiNode == Returned("performanceMetrics") /\ ret.result.value.multiNode # Null

\* C11: for an operation with positive dimensions and numDevices >= 1 the
\* multi-device metrics of both profiles have 0 < shardingEfficiency <= 1 and
\* speedupOverSingleDevice > 0.
C11_ShardingEfficiency ==
  ReturnedMultiNode /\ PositiveDimensions(CalledOn) =>
    LET multi == ret.result.value.multiNode[1]
    IN /\ NGt(multi.shardingEfficiency, Num(0))
       /\ NLe(multi.shardingEfficiency, Num(1))
       /\ NGt(multi.speedupOverSingleDevice, Num(0))

C11_Witness ==
  /\ ReturnedMultiNode
  /\ PositiveDimensions(CalledOn)
  /\ hw = "TPUv5e"
  /\ NGt(ret.result.value.multiNode[1].communicationCost, Num(0))
  /\ NLt(ret.result.value.multiNode[1].shardingEfficiency, Num(1))

\* C12: the roofline sampler returns exactly 51 intensity points, one per
\* 0.1 step of the exponent from -1 to 4 inclusive, the last of intensity 10^4.
C12_FiftyOnePoints ==
  Returned("analyze") =>
    LET points == ret.result.value.d.intensityPoints
    IN /\ Len(points) = 51
       /\ NEq(points[Len(points)].intensity, Sci(1, 4))

\* C13: every roofline sample has achievableFlops = min(peakFlops,
\* hbmBandwidth * intensity), hence at most peakFlops, and is flagged
\* memoryBound exactly when its intensity is strictly below peakFlops /
\* hbmBandwidth for the throughput of the operation's left element type.
C13_RooflinePoints ==
  Returned("analyze") =>
    LET points == ret.result.value.d.intensityPoints
    IN \A k \in 1..Len(points) :
         /\ NEq(points[k].peakFlops, flopsPerSecond(hw, CalledOn))
         /\ NEq(points[k].achievableFlops,
                NMin(points[k].peakFlops, NMul(hbmBandwidth(hw), points[k].intensity)))
         /\ NLe(points[k].achievableFlops, points[k].peakFlops)
         /\ points[k].memoryBound
              <=> NLt(points[k].intensity, NDiv(points[k].peakFlops, hbmBandwidth(hw)))

C13_Witness ==
  /\ Returned("analyze")
  /\ hw = "H100"
  /\ CalledOn.lhs.dtype = "fp32"
  /\ LET points == ret.result.value.d.intensityPoints
     IN /\ points[1].memoryBound
        /\ NLt(points[1].achievableFlops, points[1].peakFlops)
        /\ ~points[Len(points)].memoryBound
        /\ NEq(points[Len(points)].achievableFlops, points[Len(points)].peakFlops)

\* <<reported utilization, dimension, tiling unit>> of single-device metrics
Utilizations(h, m, metrics) ==
  IF h = "TPUv5e"
  THEN {<<metrics.mxuUtilization.lhsUtilization, m.lhs.shape[1], 128>>,
        <<metrics.mxuUtilization.rhsUtilizationRows, m.lhs.shape[2], 128>>,
        <<metrics.mxuUtilization.rhsUtilizationCols, m.rhs.shape[2], 128>>}
  ELSE {<<metrics.tensorCoreUtilization.mUtilization, m.lhs.shape[1], 4>>,
        <<metrics.tensorCoreUtilization.nUtilization, m.rhs.shape[2], 4>>,
        <<metrics.tensorCoreUtilization.kUtilization, m.lhs.shape[2], 16>>}

PaddingAdvice(h) ==
  IF h = "TPUv5e"
  THEN "Consider padding matrix dimensions to multiples of MXU dimensions (128x128) to improve hardware utilization."
  ELSE "Consider padding matrix dimensions to multiples of tensor core dimensions (4x4x16) to improve hardware utilization."

Contains(list, item) == \E k \in 1..Len(list) : list[k] = item

\* C14: for a positive dimension dim and tiling unit u the reported
\* utilization is 1 when dim is a multiple of u and dim / (ceil(dim/u) * u)
\* otherwise, so it lies in (0, 1]; and whenever one of the three utilizations
\* is below 0.9 the recommendations contain the padding advice naming the tile
\* dimensions.
C14_Utilization ==
  /\ \A p \in ReturnedNodeMetrics :
       \A u \in Utilizations(hw, p[1], p[2]) :
         u[2] > 0 =>
           /\ NEq(u[1], IF u[2] % u[3] = 0 THEN Num(1)
                        ELSE Frac(BN(u[2]), BN(((u[2] + u[3] - 1) \div u[3]) * u[3])))
           /\ NGt(u[1], Num(0)) /\ NLe(u[1], Num(1))
  /\ Returned("analyze")
       /\ (\E u \in Utilizations(hw, CalledOn, ret.result.value.m) :
             NLt(u[1], Frac(BN(9), BN(10))))
       => Contains(ret.result.value.r, PaddingAdvice(hw))

C14_Witness ==
  /\ Returned("analyze")
  /\ hw = "TPUv5e"
  /\ CalledOn.lhs.shape[1] = 100
  /\ NEq(ret.result.value.m.mxuUtilization.lhsUtilization, Frac(BN(78125), BN(100000)))
  /\ Contains(ret.result.value.r, PaddingAdvice("TPUv5e"))

interconnectBandwidth(h) ==
  IF h = "TPUv5e" THEN TPUv5e.iciBidiBandwidth ELSE H100.nvlinkBandwidth

IsPowerOfTwo(n) == \E e \in 0..n : 2^e = n
ExactLog2(n) == CHOOSE e \in 0..n : 2^e = n

\* C15: communicationCost is zero unless lhsShardDim = 1 or rhsShardDim = 0;
\* when one of them holds and numDevices is a power of two within one domain
\* it is (outputBytes / 2) * log2(numDevices) / interconnect bandwidth: zero for
\* one device, strictly positive for two or more with a non-empty output.
C15_CommunicationCost ==
  ReturnedMultiNode =>
    LET sC == ret.sC[1]
        cost == ret.result.value.multiNode[1].communicationCost
        B == CalledOn.lhs.shape[1]
        F == CalledOn.rhs.shape[2]
        shardsReduction == sC.lhsShardDim = Some(1) \/ sC.rhsShardDim = Some(0)
    IN /\ ~shardsReduction => IsZero(cost)
       /\ shardsReduction /\ IsPowerOfTwo(sC.numDevices) =>
            /\ CalledOn.output.dtype # "int4" =>
                 NEq(cost, NDiv(NMul(NDiv(Halves(B * F * TwiceWidth(CalledOn.output.dtype)),
                                          Num(2)),
                                     Num(ExactLog2(sC.numDevices))),
                                interconnectBandwidth(hw)))
            /\ sC.numDevices = 1 => IsZero(cost)
            /\ sC.numDevices >= 2 /\ B > 0 /\ F > 0 => NGt(cost, Num(0))

C15_Witness ==
  /\ ReturnedMultiNode
  /\ hw = "H100"
  /\ ret.sC[1] = ShardingConfig(2, Null, Some(0))
  /\ CalledOn.lhs.shape = <<100, 128>>
  /\ NGt(ret.result.value.multiNode[1].communicationCost, Num(0))

\* C16: the output byte count in the communication cost is the outputBytes
\* calculateBytes reports for the unsharded operation (leftRows * rightCols *
\* width of the output type by the byte width table), for every output type.
C16_OutputBytes ==
  ReturnedMultiNode
    /\ (ret.sC[1].lhsShardDim = Some(1) \/ ret.sC[1].rhsShardDim = Some(0))
    /\ IsPowerOfTwo(ret.sC[1].numDevices) =>
    NEq(ret.result.value.multiNode[1].communicationCost,
        NDiv(NMul(NDiv(ret.result.value.singleNode.bytes.outputBytes, Num(2)),
                  Num(ExactLog2(ret.sC[1].numDevices))),
             interconnectBandwidth(hw)))

\* C17: fitsInVMEM is true exactly when LHSBytes + RHSBytes <= 128e6 and
\* canFitWeightsInL2 exactly when RHSBytes <= 50e6, neither counting the
\* output; on H100 l2CacheBenefit is 1.5 and effectiveMemoryTime is memoryTime
\* / 1.5 when the weights fit, 1.0 and memoryTime otherwise, and the bounds are
\* the max and the sum of computeTime and effectiveMemoryTime.
C17_FastMemoryFit ==
  \A p \in ReturnedNodeMetrics :
    LET m == p[1]
        metrics == p[2]
        lhs2 == m.lhs.shape[1] * m.lhs.shape[2] * TwiceWidth(m.lhs.dtype)
        rhs2 == m.rhs.shape[1] * m.rhs.shape[2] * TwiceWidth(m.rhs.dtype)
    IN IF hw = "TPUv5e"
       THEN metrics.vmemMetrics.fitsInVMEM <=> lhs2 + rhs2 <= 2 * 128 * 10^6
       ELSE /\ metrics.canFitWeightsInL2 <=> rhs2 <= 2 * 50 * 10^6
            /\ NEq(metrics.l2CacheBenefit,
                   IF metrics.canFitWeightsInL2 THEN Frac(BN(15), BN(10)) ELSE Num(1))
            /\ IF metrics.canFitWeightsInL2
               THEN NEq(NMul(metrics.effectiveMemoryTime, Frac(BN(15), BN(10))),
                        metrics.memoryTime)
               ELSE NEq(metrics.effectiveMemoryTime, metrics.memoryTime)
            /\ NEq(metrics.lowerBoundTime,
                   NMax(metrics.computeTime, metrics.effectiveMemoryTime))
            /\ NEq(metrics.upperBoundTime,
                   NAdd(metrics.computeTime, metrics.effectiveMemoryTime))

C17_Witness ==
  /\ Returned("performanceMetrics")
  /\ hw = "H100"
  /\ CalledOn.lhs = matinfo(<<64000000, 1>>, "fp32")
  /\ ret.result.value.singleNode.canFitWeightsInL2
  /\ NLt(ret.result.value.singleNode.effectiveMemoryTime,
         ret.result.value.singleNode.memoryTime)

\* the advisory strings of a profile, in the order of its rules
AdviceOrder(h) ==
  IF h = "TPUv5e"
  THEN <<"Operation is memory-bound. Consider increasing batch size to improve arithmetic intensity.",
         "Consider using int8 quantization for weights to reduce memory bandwidth requirements.",
         "Consider using VMEM to store weights for higher bandwidth access.",
         PaddingAdvice(h),
         "For bf16 matmul on TPU, batch size should be at least 240 to be compute-bound.">>
  ELSE <<"Operation is memory-bound. Consider increasing batch size to improve arithmetic intensity.",
         "Consider using FP8 precision to reduce memory bandwidth requirements and increase compute throughput.",
         "Consider using structured sparsity to potentially double compute throughput.",
         PaddingAdvice(h),
         "For bf16 matmul on H100, batch size should be at least 300 to be compute-bound.",
         "For optimal CUDA kernel performance, consider using dimensions that are multiples of 32 for M and N, and 16 for K.">>

AdvicePosition(h, item) == CHOOSE k \in 1..Len(AdviceOrder(h)) : AdviceOrder(h)[k] = item

\* some rule of the profile fires on the operation and its metrics
SomeRuleFires(h, m, metrics) ==
  \/ ~metrics.isComputeBound
  \/ \E u \in Utilizations(h, m, metrics) : NLt(u[1], Frac(BN(9), BN(10)))
  \/ m.lhs.dtype = "bf16" /\ m.lhs.shape[1] < (IF h = "TPUv5e" THEN 240 ELSE 300)
  \/ h = "H100" /\ (m.lhs.shape[1] % 32 # 0 \/ m.rhs.shape[2] % 32 # 0 \/ m.lhs.shape[2] % 16 # 0)

\* C18: the recommendations are never empty; they are the single sentinel
\* 'No recommendations!' iff no rule fired, the sentinel never comes with
\* another recommendation, and the fired rules' advice appears in the fixed
\* order of the rules.
C18_Recommendations ==
  Returned("analyze") =>
    LET r == ret.result.value.r
    IN /\ Len(r) >= 1
       /\ Contains(r, "No recommendations!") => r = <<"No recommendations!">>
       /\ r = <<"No recommendations!">> <=> ~SomeRuleFires(hw, CalledOn, ret.result.value.m)
       /\ r # <<"No recommendations!">> =>
            /\ \A i \in 1..Len(r) : Contains(AdviceOrder(hw), r[i])
            /\ \A i, j \in 1..Len(r) :
                 i < j => AdvicePosition(hw, r[i]) < AdvicePosition(hw, r[j])

C18_Witness ==
  /\ Returned("analyze")
  /\ hw = "H100"
  /\ ret.result.value.r = <<"No recommendations!">>
  /\ ret.result.value.m.isComputeBound

Int8Advice == "Consider using int8 quantization for weights to reduce memory bandwidth requirements."
VmemAdvice == "Consider using VMEM to store weights for higher bandwidth access."

\* C19 (as stated): on TPUv5e the int8 suggestion is given whenever both
\* operands are bf16 and the VMEM suggestion whenever fitsInVMEM is true, for
\* compute-bound and memory-bound operations alike.
C19_IndependentRules ==
  Returned("analyze") /\ hw = "TPUv5e" =>
    /\ CalledOn.lhs.dtype = "bf16" /\ CalledOn.rhs.dtype = "bf16"
         => Contains(ret.result.value.r, Int8Advice)
    /\ ret.result.value.m.vmemMetrics.fitsInVMEM => Contains(ret.result.value.r, VmemAdvice)

\* C19 (amended): on TPUv5e the int8 suggestion is given exactly when the
\* operation is memory-bound and both operands are bf16, and the VMEM
\* suggestion exactly when it is memory-bound and fitsInVMEM is true; a
\* compute-bound operation gets neither.
C19_RulesUnderMemoryBound ==
  Returned("analyze") /\ hw = "TPUv5e" =>
    LET metrics == ret.result.value.m
    IN /\ Contains(ret.result.value.r, Int8Advice)
            <=> (~metrics.isComputeBound
                   /\ CalledOn.lhs.dtype = "bf16" /\ CalledOn.rhs.dtype = "bf16")
       /\ Contains(ret.result.value.r, VmemAdvice)
            <=> (~metrics.isComputeBound /\ metrics.vmemMetrics.fitsInVMEM)

C19_Witness ==
  /\ Returned("analyze")
  /\ hw = "TPUv5e"
  /\ ret.result.value.m.isComputeBound
  /\ CalledOn.lhs.dtype = "bf16" /\ CalledOn.rhs.dtype = "bf16"
  /\ ret.result.value.m.vmemMetrics.fitsInVMEM
  /\ ~Contains(ret.result.value.r, Int8Advice)
  /\ ~Contains(ret.result.value.r, VmemAdvice)

\* C20: when the total byte footprint of an operation is zero,
\* calculateArithmeticIntensity throws or returns Infinity; a NaN never
\* reaches the metrics.
C20_ZeroBytes ==
  /\ ret.call = "calculateArithmeticIntensity" /\ IsZero(calculateBytes(CalledOn).totalBytes)
       => ret.result.threw \/ IsInfinity(ret.result.value)
  /\ \A p \in ReturnedNodeMetrics :
       IsZero(p[2].bytes.totalBytes) => ~IsNaN(p[2].arithmeticIntensity)


\* C21: on H100, for an operation with positive dimensions and any sharding
\* configuration with numDevices >= 1, scalingEfficiency equals
\* speedupOverSingleDevice / numDevices and lies in (0, 1].
C21_ScalingEfficiency ==
  ReturnedMultiNode /\ hw = "H100" /\ PositiveDimensions(CalledOn) =>
    LET multi == ret.result.value.multiNode[1]
    IN /\ NEq(multi.scalingEfficiency,
              NDiv(multi.speedupOverSingleDevice, Num(ret.sC[1].numDevices)))
       /\ NGt(multi.scalingEfficiency, Num(0))
       /\ NLe(multi.scalingEfficiency, Num(1))


\* C22: for an operation with positive dimensions on either profile,
\* isComputeBound is true exactly when computeTime > memoryTime, the
\* main-memory time without fast-memory benefit; on TPUv5e lowerBoundTime
\* equals computeTime iff the operation is compute-bound or the two times are
\* equal; and the roofline's point for the operation lies on the sampled
\* curve: matrixPoint.achievableFlops = min(peakFlops, hbmBandwidth *
\* arithmeticIntensity).
C22_ComputeBoundTimes ==
  /\ \A p \in ReturnedNodeMetrics :
       PositiveDimensions(p[1]) =>
         /\ p[2].isComputeBound <=> NGt(p[2].computeTime, p[2].memoryTime)
         /\ hw = "TPUv5e" =>
              (NEq(p[2].lowerBoundTime, p[2].computeTime)
                 <=> (p[2].isComputeBound \/ NEq(p[2].computeTime, p[2].memoryTime)))
  /\ Returned("analyze") /\ PositiveDimensions(CalledOn) =>
       LET metrics == ret.result.value.m
           data == ret.result.value.d
       IN /\ NEq(data.peakFlops, flopsPerSecond(hw, CalledOn))
          /\ NEq(data.matrixPoint.intensity, metrics.arithmeticIntensity)
          /\ NEq(data.matrixPoint.achievableFlops,
                 NMin(data.peakFlops, NMul(hbmBandwidth(hw), metrics.arithmeticIntensity)))

C22_Witness ==
  /\ Returned("analyze")
  /\ PositiveDimensions(CalledOn)
  /\ hw = "TPUv5e"
  /\ ret.result.value.m.isComputeBound
  /\ NGt(ret.result.value.m.computeTime, ret.result.value.m.memoryTime)
  /\ NEq(ret.result.value.m.lowerBoundTime, ret.result.value.m.computeTime)
  /\ NEq(ret.result.value.d.matrixPoint.achievableFlops, ret.result.value.d.peakFlops)

====
